---- MODULE Spec2Model ----
(***************************************************************************)
(* State sync reactor (internal/statesync/reactor.go).                     *)
(*                                                                         *)
(* Ten specifications share the reactor's state:                           *)
(*   Spec                Sync callers, the reactor mutex and peer updates  *)
(*   SpecBackfill        Backfill/backfill: fetch workers, block queue,    *)
(*                       verifier, with faulty peers and interruptions     *)
(*   SpecBackfillHonest  the same with honest peers, under fair scheduling *)
(*   SpecBackfillFair    the same with faulty peers, under fair scheduling *)
(*   SpecReport          a back-fill fetching through the dispatcher, any  *)
(*                       peer answering                                    *)
(*   SpecCh              the channel loops (processCh / handleMessage)     *)
(*   SpecStop            OnStop against the loops and a Sync call          *)
(*   SpecDispatcher      the fetch workers' calls of dispatcher.LightBlock *)
(*   SpecRotation        the peer list's Pop/Append rotation               *)
(*   SpecPeers           the rotation while peers come up and go down      *)
(* The block queue, the peer list and the dispatcher are not part of       *)
(* reactor.go; they are modelled from their description in spec.md.        *)
(*                                                                         *)
(* Where a definition of the code is preceded by a variant of it           *)
(* (HashMatchesAlways before HashMatches, ...), the variant is the fault   *)
(* the properties below are meant to exclude; the model uses the latter.   *)
(***************************************************************************)
EXTENDS Integers, Sequences, FiniteSets, TLC

\* ---------------------------------------------------------------- bounds
MaxHeight == 3          \* highest block height of the modelled chain
MaxRetries == 1         \* stands for maxLightBlockRequestRetries (20)
ChanCap == 1            \* buffer of a p2p channel's Out and Error sides
MaxPops == 6            \* pops of the peer list followed in a rotation

Heights == 1..MaxHeight
Peers == {1, 2}         \* node ids
NoPeer == 0             \* the "no peer" sentinel returned by peers.Pop on cancel
Fetchers == {1, 2}      \* fetch workers, r.cfg.Fetchers of them
ValSets == {1, 2}       \* validator sets (identified with their hashes)

\* ---------------------------------------------------------------- state
VARIABLES
    peers,          \* r.peers: FIFO list of node ids
    mtx,            \* r.mtx: 0 when free, else the holder
    syncer,         \* r.syncer: 0 when nil, else the Sync call that made it
    stateProvider,  \* r.stateProvider: 0 when nil, else the Sync call that made it
    providers,      \* r.providers: set of node ids with a BlockProvider
    closeCh,        \* TRUE once r.closeCh is closed
    ctxDone,        \* TRUE once the caller's context is cancelled
    connected,      \* the peers the router has reported up and not down since
    sync,           \* per Sync caller: position, return value
    storeCalls,     \* calls made by Sync on the state and block store, in order
    pu,             \* peer-update loop: position and the update in hand
    state,          \* the sm.State handed to Backfill
    chain,          \* the canonical chain: validator set per height
    bf,             \* backfill: verifier loop position and locals
    queue,          \* the block queue of the running backfill
    workers,        \* per fetch worker: position and locals
    savedHeaders,   \* blockStore.SaveSignedHeader calls, in order
    savedVals,      \* stateStore.SaveValidatorSets calls, in order
    delivered,      \* blocks received by the verifier on queue.verifyNext():
                    \* height, and whether the verifier accepted the block
    handed,         \* per height: times handed out on queue.nextHeight()
    loops,          \* per p2p channel: loop position and the envelope in hand
    chOut,          \* per p2p channel: envelopes sent on Out, not yet routed
    chError,        \* per p2p channel: PeerErrors sent on Error, not yet routed
    budget,         \* what the environment may still do in this run: fetches
                    \* answered by anything but the canonical block, and
                    \* whether the context is cancelled or the reactor stopped
    dispatcher,     \* r.dispatcher: the current request slot, the done signal
                    \* and what became of the last response handed to Respond
    lbCalls,        \* per fetch worker: its dispatcher.LightBlock call
    rotation,       \* the peer each fetch worker holds between r.peers.Pop
                    \* and r.peers.Append, and how often each peer was popped
    added           \* what the handlers have passed to the syncer of the
                    \* sync in progress: AddSnapshot / AddChunk and the peer

lockVars == <<mtx, syncer, stateProvider, providers>>
envVars == <<closeCh, ctxDone, connected>>
reactorVars == <<peers, lockVars, envVars>>
syncVars == <<sync, storeCalls, pu>>
bfVars == <<state, chain, bf, queue, workers, savedHeaders, savedVals, delivered, handed>>
chVars == <<loops, chOut, chError>>
dispVars == <<dispatcher, lbCalls>>
vars == <<reactorVars, syncVars, bfVars, chVars, budget, dispVars, rotation, added>>

Channels == {"snapshot", "chunk", "block", "params"}

\* ------------------------------------------------------------ light blocks
\* A light block of the modelled universe.  The canonical chain has one
\* header per height; forged = TRUE is a header with other contents (and so
\* another hash); basicOK = FALSE is a block whose validator set or commit
\* does not line up with its header.
NoBlock == [height |-> 0, forged |-> FALSE, basicOK |-> FALSE]
LightBlocks == [height : Heights, forged : BOOLEAN, basicOK : BOOLEAN]

\* types.Header.Hash: injective in the header's contents (height, forged).
Hash(b) == 2 * b.height + (IF b.forged THEN 1 ELSE 0)
\* Header.LastBlockID: the hash of the header one below, same fork.
LastBlockID(b) == 2 * (b.height - 1) + (IF b.forged THEN 1 ELSE 0)
\* Header.Time: one time unit per block on the canonical chain.
BlockTime(b) == IF b.forged THEN 0 ELSE b.height
OtherValSet(v) == IF v = 1 THEN 2 ELSE 1
\* Header.ValidatorsHash / NextValidatorsHash / LightBlock.ValidatorSet
ValidatorsHash(b) ==
    IF b.forged THEN OtherValSet(chain[b.height]) ELSE chain[b.height]
NextValidatorsHash(b) ==
    IF b.forged THEN chain[b.height] ELSE chain[b.height + 1]
ValidatorSet(b) == ValidatorsHash(b)
\* LightBlock.ValidateBasic(chainID)
ValidateBasic(b) == b.basicOK

\* ------------------------------------------------------------- peer list
\* peerList.Append / Remove (every occurrence) on the FIFO list.
RemoveAll(list, p) == SelectSeq(list, LAMBDA x : x # p)

\* The workers' use of the peer list on its own: a worker pops the oldest
\* peer (waiting while the list is empty), holds it for its request and
\* appends it back.  overlapped records that some pop was made while another
\* worker held a peer.
IdleRotation == [held |-> [w \in Fetchers |-> NoPeer],
                 selected |-> [p \in Peers |-> 0],
                 overlapped |-> FALSE]
TotalPops ==
    LET S[ps \in SUBSET Peers] ==
            IF ps = {} THEN 0
            ELSE LET p == CHOOSE q \in ps : TRUE
                 IN  rotation.selected[p] + S[ps \ {p}]
    IN  S[Peers]

\* peerList.Append
PeersPrepend(list, p) == <<p>> \o list
PeersAppend(list, p) == Append(list, p)

\* worker: peer := r.peers.Pop(ctx)
RotationPop(w) ==
    /\ rotation.held[w] = NoPeer
    /\ peers # <<>>
    /\ TotalPops < MaxPops
    /\ peers' = Tail(peers)
    /\ rotation' = [rotation EXCEPT
                       !.held[w] = Head(peers),
                       !.selected[Head(peers)] = @ + 1,
                       !.overlapped = @ \/ \E v \in Fetchers : rotation.held[v] # NoPeer]
    /\ UNCHANGED <<lockVars, envVars, syncVars, bfVars, chVars, budget, dispVars, added>>

\* worker: r.peers.Append(peer), once the request has returned
RotationAppend(w) ==
    /\ rotation.held[w] # NoPeer
    /\ peers' = PeersAppend(peers, rotation.held[w])
    /\ rotation' = [rotation EXCEPT !.held[w] = NoPeer]
    /\ UNCHANGED <<lockVars, envVars, syncVars, bfVars, chVars, budget, dispVars, added>>

\* ------------------------------------------------------------ dispatcher
\* The dispatcher's current request: the height and the peer asked, the call
\* waiting on the one-shot reply (owner), and the reply once Respond has
\* delivered one (<<>> before).
NoCall == [height |-> 0, peer |-> NoPeer, owner |-> 0, reply |-> <<>>]
NewDispatcher == [slot |-> NoCall, done |-> FALSE, last |-> "", from |-> NoPeer]

\* Dispatcher.Respond(block, peer): dropped when no request is outstanding,
\* else delivered to the reply of the request, whoever the peer is.
Respond(block, peer) ==
    IF dispatcher.slot = NoCall \/ dispatcher.slot.reply # <<>>
    THEN [dispatcher EXCEPT !.last = "dropped"]
    ELSE [dispatcher EXCEPT !.slot.reply = <<block>>, !.last = "delivered",
                            !.from = peer]

\* Dispatcher.Close: signals done.
Close == [dispatcher EXCEPT !.done = TRUE]

\* A call of dispatcher.LightBlock by a fetch worker: its position, its
\* arguments, whether its timeout has fired, and what it returned.
NoResult == [err |-> "", block |-> NoBlock, from |-> NoPeer]
IdleCall == [pc |-> "idle", height |-> 0, peer |-> NoPeer, timeout |-> FALSE,
             result |-> NoResult]
IdleCalls == [w \in Fetchers |-> IdleCall]
CallReturned(err, block) ==
    [IdleCall EXCEPT !.pc = "returned", !.result.err = err, !.result.block = block]
\* The call returns the block of the reply; from is the peer whose response
\* carried it (kept for the properties, LightBlock does not return it).
CallAnswered(block, from) == [CallReturned("", block) EXCEPT !.result.from = from]

\* LightBlock, failing with pending: what it leaves in the slot.
SlotCleanedOnPending == NoCall
SlotOnPending == dispatcher.slot

\* r.dispatcher.LightBlock(subCtx, height, peer) up to the wait for a reply:
\* no_peer for the sentinel, pending when a request is outstanding, else the
\* request is installed and sent to the peer on the block channel.
LightBlock(w, height, peer) ==
    /\ lbCalls[w].pc = "idle"
    /\ LET c == [IdleCall EXCEPT !.height = height, !.peer = peer]
       IN  IF peer = NoPeer
           THEN /\ lbCalls' = [lbCalls EXCEPT ![w] = CallReturned("no_peer", NoBlock)]
                /\ UNCHANGED <<dispatcher, chOut>>
           ELSE IF dispatcher.slot # NoCall
           THEN /\ lbCalls' = [lbCalls EXCEPT ![w] = CallReturned("pending", NoBlock)]
                /\ dispatcher' = [dispatcher EXCEPT !.slot = SlotOnPending]
                /\ UNCHANGED chOut
           ELSE /\ Len(chOut["block"]) < ChanCap
                /\ dispatcher' = [dispatcher EXCEPT !.slot =
                       [height |-> height, peer |-> peer, owner |-> w,
                        reply |-> <<>>]]
                /\ chOut' = [chOut EXCEPT !["block"] = Append(@, [To |-> peer])]
                /\ lbCalls' = [lbCalls EXCEPT ![w] = [c EXCEPT !.pc = "waiting"]]
    /\ UNCHANGED <<reactorVars, syncVars, bfVars, loops, chError, budget, rotation, added>>

\* subCtx of the worker: context.WithTimeout(ctx, lightBlockResponseTimeout)
LightBlockTimeout(w) ==
    /\ lbCalls[w].pc = "waiting"
    /\ ~lbCalls[w].timeout
    /\ lbCalls' = [lbCalls EXCEPT ![w].timeout = TRUE]
    /\ UNCHANGED <<reactorVars, syncVars, bfVars, chVars, budget, dispatcher, rotation, added>>

\* LightBlock, leaving on ctx.Done or on the dispatcher's done: what it
\* leaves in the slot.
SlotLeftOnCancel == dispatcher.slot
SlotOnCancel == NoCall

\* LightBlock from the wait to its return: the reply, or the context's error
\* when subCtx is done, or a cancellation when the dispatcher is closed;
\* whichever of them is ready.  The slot is cleaned on the way out.
LightBlockReturn(w) ==
    /\ lbCalls[w].pc = "waiting"
    /\ \/ /\ dispatcher.slot.reply # <<>>
          /\ lbCalls' = [lbCalls EXCEPT ![w] =
                            CallAnswered(dispatcher.slot.reply[1], dispatcher.from)]
          /\ dispatcher' = [dispatcher EXCEPT !.slot = NoCall, !.from = NoPeer]
       \/ /\ ctxDone \/ lbCalls[w].timeout
          /\ lbCalls' = [lbCalls EXCEPT ![w] =
                            CallReturned(IF ctxDone THEN "canceled"
                                     ELSE "deadline exceeded", NoBlock)]
          /\ dispatcher' = [dispatcher EXCEPT !.slot = SlotOnCancel, !.from = NoPeer]
       \/ /\ dispatcher.done
          /\ lbCalls' = [lbCalls EXCEPT ![w] = CallReturned("canceled", NoBlock)]
          /\ dispatcher' = [dispatcher EXCEPT !.slot = SlotOnCancel, !.from = NoPeer]
    /\ UNCHANGED <<reactorVars, syncVars, bfVars, chVars, budget, rotation, added>>

\* The worker goes round its loop and can call LightBlock again.
LightBlockNext(w) ==
    /\ lbCalls[w].pc = "returned"
    /\ lbCalls' = [lbCalls EXCEPT ![w] = IdleCall]
    /\ UNCHANGED <<reactorVars, syncVars, bfVars, chVars, budget, dispatcher, rotation, added>>

\* Blocks a peer may send in a LightBlockResponse: none, or the block of a
\* height (the dispatcher does not look into it).
ResponseBlocks ==
    {NoBlock} \cup {[height |-> h, forged |-> FALSE, basicOK |-> TRUE] : h \in Heights}

\* handleLightBlockMessage on a LightBlockResponse:
\* r.dispatcher.Respond(msg.LightBlock, envelope.From)
LightBlockResponse(from, block) ==
    /\ dispatcher' = Respond(block, from)
    /\ UNCHANGED <<reactorVars, syncVars, bfVars, chVars, budget, lbCalls, rotation, added>>

\* -------------------------------------------------------------- block queue
NoResp == [block |-> NoBlock, peer |-> NoPeer]

SetMax(S) == CHOOSE x \in S : \A y \in S : y <= x

\* newBlockQueue(startHeight, stopHeight, initialHeight, stopTime, maxRetries)
newBlockQueue(startHeight, stopHeight, initialHeight, stopTime, maxRetries) ==
    [ pending       |-> stopHeight..startHeight,
      fetched       |-> [h \in Heights |-> NoResp],
      retries       |-> [h \in Heights |-> 0],
      verifyHeight  |-> startHeight,
      stopHeight    |-> stopHeight,
      initialHeight |-> initialHeight,
      stopTime      |-> stopTime,
      maxRetries    |-> maxRetries,
      terminal      |-> NoBlock,
      done          |-> FALSE,
      err           |-> "" ]

\* queue.nextHeight(): a height can be received when one is pending; once the
\* queue is done the channel is closed and a receive yields the zero height.
NextHeightReady(q) == q.done \/ q.pending # {}
NextHeight(q) == IF q.done THEN 0 ELSE SetMax(q.pending)
TakeNextHeight(q) ==
    IF q.done THEN q ELSE [q EXCEPT !.pending = @ \ {SetMax(q.pending)}]

\* queue.retry(height)
retry(q, height) ==
    IF q.done \/ height \notin Heights THEN q
    ELSE IF q.retries[height] + 1 > q.maxRetries
         THEN [q EXCEPT !.retries[height] = @ + 1,
                        !.done = TRUE,
                        !.err = "retries_exhausted"]
         ELSE [q EXCEPT !.retries[height] = @ + 1,
                        !.pending = @ \cup {height}]

\* queue.add(resp)
add(q, resp) ==
    IF q.done THEN q
    ELSE [q EXCEPT !.fetched[resp.block.height] = resp]

\* queue.verifyNext(): the block at the verify height, once it is fetched.
VerifyNextReady(q) == ~q.done /\ q.fetched[q.verifyHeight] # NoResp
TakeVerifyNext(q) == [q EXCEPT !.fetched[q.verifyHeight] = NoResp]

\* The queue's termination predicate for the block just verified.
IsTerminal(q, b) ==
    \/ b.height <= q.stopHeight /\ BlockTime(b) <= q.stopTime
    \/ b.height = q.initialHeight

\* queue.success(height), with the verified block as the last verified one.
success(q, b) ==
    LET next == q.verifyHeight - 1 IN
    [q EXCEPT !.verifyHeight = next,
              !.terminal = b,
              !.done = q.done \/ IsTerminal(q, b),
              !.pending = IF ~IsTerminal(q, b) /\ next < q.stopHeight
                          THEN @ \cup {next} ELSE @]

\* queue.close()
close(q) == [q EXCEPT !.done = TRUE]

\* --------------------------------------------------------------- Backfill
NoQueue == newBlockQueue(0, 1, 0, 0, 0)
IdleBf == [pc |-> "idle", trustedBlockID |-> 0, lastValidatorSet |-> 0,
           lastChangeHeight |-> 0, resp |-> NoResp, result |-> ""]
IdleWorker == [pc |-> "off", height |-> 0, peer |-> NoPeer]

\* The retry limit backfill gives its queue.
maxLightBlockRequestRetries == MaxRetries

\* Reactor.Backfill: stop height and stop time from the evidence parameters.
StopHeightOffByOne(st) ==
    IF st.LastBlockHeight - st.MaxAgeNumBlocks < st.InitialHeight
    THEN st.InitialHeight
    ELSE st.LastBlockHeight - st.MaxAgeNumBlocks + 1
StopHeight(st) ==
    IF st.LastBlockHeight - st.MaxAgeNumBlocks < st.InitialHeight
    THEN st.InitialHeight
    ELSE st.LastBlockHeight - st.MaxAgeNumBlocks
StopTimeNotCollapsed(st) == st.LastBlockTime - st.MaxAgeDuration
StopTime(st) ==
    IF st.LastBlockHeight - st.MaxAgeNumBlocks < st.InitialHeight
    THEN st.LastBlockTime
    ELSE st.LastBlockTime - st.MaxAgeDuration

\* Reactor.Backfill calling backfill up to the spawning of the fetch workers.
Backfill ==
    /\ bf.pc = "idle"
    /\ queue' = newBlockQueue(state.LastBlockHeight, StopHeight(state),
                              state.InitialHeight, StopTime(state),
                              maxLightBlockRequestRetries)
    /\ bf' = [bf EXCEPT !.pc = "select",
                        !.trustedBlockID = state.LastBlockID,
                        !.lastValidatorSet = 0,
                        !.lastChangeHeight = state.LastBlockHeight]
    /\ workers' = [w \in Fetchers |-> [IdleWorker EXCEPT !.pc = "select"]]
    /\ UNCHANGED <<state, chain, savedHeaders, savedVals, delivered, handed>>
    /\ UNCHANGED <<reactorVars, syncVars, chVars, budget, dispVars, rotation, added>>

\* The worker contexts are cancelled when the caller's context is, and by
\* the deferred cancel() once backfill has returned.
WorkerCtxDone == ctxDone \/ bf.pc = "returned"

\* worker: case height := <-queue.nextHeight()
WorkerNextHeight(w) ==
    /\ workers[w].pc = "select"
    /\ NextHeightReady(queue)
    /\ workers' = [workers EXCEPT ![w].pc = "pop",
                                  ![w].height = NextHeight(queue)]
    /\ queue' = TakeNextHeight(queue)
    /\ handed' = IF NextHeight(queue) \in Heights
                 THEN [handed EXCEPT ![NextHeight(queue)] = @ + 1]
                 ELSE handed
    /\ UNCHANGED <<state, chain, bf, savedHeaders, savedVals, delivered>>
    /\ UNCHANGED <<reactorVars, syncVars, chVars, budget, dispVars, rotation, added>>

\* worker: case <-queue.done()
WorkerQueueDone(w) ==
    /\ workers[w].pc = "select"
    /\ queue.done
    /\ workers' = [workers EXCEPT ![w].pc = "exit"]
    /\ UNCHANGED <<state, chain, bf, queue, savedHeaders, savedVals, delivered, handed>>
    /\ UNCHANGED <<reactorVars, syncVars, chVars, budget, dispVars, rotation, added>>

\* worker: peer := r.peers.Pop(ctx)
WorkerPop(w) ==
    /\ workers[w].pc = "pop"
    /\ \/ /\ peers # <<>>
          /\ workers' = [workers EXCEPT ![w].pc = "fetch", ![w].peer = Head(peers)]
          /\ peers' = Tail(peers)
       \/ /\ peers = <<>>
          /\ ctxDone
          /\ workers' = [workers EXCEPT ![w].pc = "fetch", ![w].peer = NoPeer]
          /\ peers' = peers
    /\ UNCHANGED <<state, chain, bf, queue, savedHeaders, savedVals, delivered, handed>>
    /\ UNCHANGED <<lockVars, envVars, syncVars, chVars, budget, dispVars, rotation, added>>

\* What r.dispatcher.LightBlock(subCtx, height, peer) can return to a worker,
\* as seen from the reactor: an error, a nil block, or any light block that
\* whoever answered chose to send.  A peer that answers honestly sends the
\* canonical block of the height, and nil for a height that has no block.
CanonicalBlock(h) == [height |-> h, forged |-> FALSE, basicOK |-> TRUE]
HonestResult(h) ==
    IF h \in Heights
    THEN [kind |-> "block", block |-> CanonicalBlock(h)]
    ELSE [kind |-> "nil", block |-> NoBlock]
AnyResult ==
    {[kind |-> "err", block |-> NoBlock], [kind |-> "nil", block |-> NoBlock]}
        \cup {[kind |-> "block", block |-> b] : b \in LightBlocks}
LightBlockResults(w) ==
    IF workers[w].peer = NoPeer
    THEN {[kind |-> "nopeers", block |-> NoBlock]}
    ELSE IF WorkerCtxDone
    THEN {[kind |-> "canceled", block |-> NoBlock]}
    ELSE IF budget.faults > 0
    THEN AnyResult
    ELSE {HonestResult(workers[w].height)}

\* What a fetched block must satisfy before it is queued.
BlockAcceptedAnyHeight(lb, height) == ValidateBasic(lb)
BlockAccepted(lb, height) == ValidateBasic(lb) /\ lb.height = height

\* worker: if err != nil { queue.retry(height); ...; continue }
AfterFetchErrorReport(w) == [workers[w] EXCEPT !.pc = "sendErr", !.height = 0]
AfterFetchError(w) == [IdleWorker EXCEPT !.pc = "select"]

\* worker: lb, err := r.dispatcher.LightBlock(...); r.peers.Append(peer); then
\* the branch taken on the result res: return, retry, retry and go on to
\* remove the peer, retry and go on to report the peer, or add the block.
WorkerFetchBranch(w, res) ==
    LET me == workers[w]
        again == [IdleWorker EXCEPT !.pc = "select"]
    IN
    /\ me.pc = "fetch"
    /\ peers' = Append(peers, me.peer)
    /\ IF res.kind = "canceled"
       THEN /\ workers' = [workers EXCEPT ![w] = [IdleWorker EXCEPT !.pc = "exit"]]
            /\ queue' = queue
       ELSE IF res.kind \in {"err", "nopeers"}
       THEN /\ queue' = retry(queue, me.height)
            /\ workers' = [workers EXCEPT ![w] = AfterFetchError(w)]
       ELSE IF res.kind = "nil"
       THEN /\ queue' = retry(queue, me.height)
            /\ workers' = [workers EXCEPT ![w].pc = "remove", ![w].height = 0]
       ELSE IF ~BlockAccepted(res.block, me.height)
       THEN /\ queue' = retry(queue, me.height)
            /\ workers' = [workers EXCEPT ![w].pc = "sendErr", ![w].height = 0]
       ELSE /\ queue' = add(queue, [block |-> res.block, peer |-> me.peer])
            /\ workers' = [workers EXCEPT ![w] = again]
    /\ UNCHANGED <<state, chain, bf, savedHeaders, savedVals, delivered, handed>>
    /\ UNCHANGED <<lockVars, envVars, syncVars, chVars, rotation, added>>

\* The fetch with the call of dispatcher.LightBlock taken as one step that
\* returns one of LightBlockResults(w); an answer other than the honest one
\* is paid from the budget of faulty answers.
WorkerFetchResult(w, res) ==
    /\ res \in LightBlockResults(w)
    /\ WorkerFetchBranch(w, res)
    /\ budget' = IF res.kind \in {"err", "nil", "block"}
                      /\ res # HonestResult(workers[w].height)
                 THEN [budget EXCEPT !.faults = @ - 1] ELSE budget
    /\ UNCHANGED dispVars

FetchResults ==
    AnyResult \cup {[kind |-> k, block |-> NoBlock] : k \in {"nopeers", "canceled"}}

WorkerFetch(w) == \E res \in FetchResults : WorkerFetchResult(w, res)

\* The worker's fetch with the call of dispatcher.LightBlock spelled out: the
\* worker calls LightBlock for its height and the peer it popped, ...
WorkerCall(w) ==
    /\ workers[w].pc = "fetch"
    /\ LightBlock(w, workers[w].height, workers[w].peer)

\* ... and when the call has returned it takes the branch of what the call
\* returned: errNoConnectedPeers for the sentinel, context.Canceled, another
\* error, a nil block or a block.
ResultOfCall(w) ==
    LET r == lbCalls[w].result IN
    IF r.err = "no_peer" THEN [kind |-> "nopeers", block |-> NoBlock]
    ELSE IF r.err = "canceled" THEN [kind |-> "canceled", block |-> NoBlock]
    ELSE IF r.err # "" THEN [kind |-> "err", block |-> NoBlock]
    ELSE IF r.block = NoBlock THEN [kind |-> "nil", block |-> NoBlock]
    ELSE [kind |-> "block", block |-> r.block]

\* (from stays with the idle call until the worker's next call, for the
\* properties: who answered the call the worker last made.)
WorkerFetchCall(w) ==
    /\ lbCalls[w].pc = "returned"
    /\ WorkerFetchBranch(w, ResultOfCall(w))
    /\ lbCalls' = [lbCalls EXCEPT ![w] =
                      [IdleCall EXCEPT !.result.from = lbCalls[w].result.from]]
    /\ UNCHANGED <<dispatcher, budget>>

\* worker: r.peers.Remove(peer) after a nil light block
WorkerRemove(w) ==
    /\ workers[w].pc = "remove"
    /\ peers' = RemoveAll(peers, workers[w].peer)
    /\ workers' = [workers EXCEPT ![w] = [IdleWorker EXCEPT !.pc = "select"]]
    /\ UNCHANGED <<state, chain, bf, queue, savedHeaders, savedVals, delivered, handed>>
    /\ UNCHANGED <<lockVars, envVars, syncVars, chVars, budget, dispVars, rotation, added>>

\* worker: r.blockCh.Error <- p2p.PeerError{NodeID: peer}
WorkerSendErr(w) ==
    /\ workers[w].pc = "sendErr"
    /\ Len(chError["block"]) < ChanCap
    /\ chError' = [chError EXCEPT !["block"] = Append(@, [NodeID |-> workers[w].peer, Err |-> "invalid block"])]
    /\ workers' = [workers EXCEPT ![w] = [IdleWorker EXCEPT !.pc = "select"]]
    /\ UNCHANGED <<state, chain, bf, queue, savedHeaders, savedVals, delivered, handed>>
    /\ UNCHANGED <<reactorVars, syncVars, loops, chOut, budget, dispVars, rotation, added>>

\* verifier: bytes.Equal(trustedBlockID.Hash, resp.block.Hash())
HashMatchesAlways(trusted, b) == TRUE
HashMatches(trusted, b) == trusted = Hash(b)

\* verifier: lastValidatorSet != nil && ValidatorsHash != NextValidatorsHash
ValSetChangedNoNilCheck(lastValidatorSet, b) ==
    ValidatorsHash(b) # NextValidatorsHash(b)
ValSetChanged(lastValidatorSet, b) ==
    lastValidatorSet # 0 /\ ValidatorsHash(b) # NextValidatorsHash(b)

\* verifier, on a hash mismatch: queue.retry(resp.block.Height)
RejectedSkipped(q, resp) == success(q, resp.block)
Rejected(q, resp) == retry(q, resp.block.height)

\* verifier, on queue.done(): if err := queue.error(); err != nil
QueueErrorIgnored(q) == FALSE
QueueFailed(q) == q.err # ""

Returned(result) == [bf EXCEPT !.pc = "returned", !.result = result, !.resp = NoResp]

\* verifier, on a hash mismatch: on to the send of the PeerError, the locals
\* (trustedBlockID, lastValidatorSet, lastChangeHeight) as they are.
HashMismatchTrusts(resp) ==
    [bf EXCEPT !.pc = "sendErr", !.resp = resp,
               !.trustedBlockID = LastBlockID(resp.block)]
HashMismatch(resp) == [bf EXCEPT !.pc = "sendErr", !.resp = resp]

\* verifier: case resp := <-queue.verifyNext()
BfVerifyNext ==
    LET resp == queue.fetched[queue.verifyHeight]
        b == resp.block
        q1 == TakeVerifyNext(queue)
        changed == ValSetChanged(bf.lastValidatorSet, b)
    IN
    /\ bf.pc = "select"
    /\ VerifyNextReady(queue)
    /\ delivered' = Append(delivered,
           [height |-> b.height, accepted |-> HashMatches(bf.trustedBlockID, b)])
    /\ IF ~HashMatches(bf.trustedBlockID, b)
       THEN /\ bf' = HashMismatch(resp)
            /\ queue' = q1
            /\ UNCHANGED <<savedHeaders, savedVals>>
       ELSE \E headerOK \in BOOLEAN, valsOK \in BOOLEAN :
            /\ savedHeaders' = Append(savedHeaders,
                   [height |-> b.height, hash |-> Hash(b),
                    lastBlockID |-> LastBlockID(b), trusted |-> bf.trustedBlockID])
            /\ IF ~headerOK
               THEN /\ bf' = Returned("store_error")
                    /\ queue' = q1
                    /\ UNCHANGED savedVals
               ELSE /\ savedVals' =
                         IF changed
                         THEN Append(savedVals,
                                  [lo |-> b.height + 1, hi |-> bf.lastChangeHeight,
                                   vals |-> bf.lastValidatorSet, final |-> FALSE])
                         ELSE savedVals
                    /\ IF changed /\ ~valsOK
                       THEN /\ bf' = Returned("store_error")
                            /\ queue' = q1
                       ELSE /\ bf' = [bf EXCEPT
                                        !.trustedBlockID = LastBlockID(b),
                                        !.lastValidatorSet = ValidatorSet(b),
                                        !.lastChangeHeight =
                                            IF changed THEN b.height ELSE @]
                            /\ queue' = success(q1, b)
    /\ UNCHANGED <<state, chain, workers, handed>>
    /\ UNCHANGED <<reactorVars, syncVars, chVars, budget, dispVars, rotation, added>>

\* verifier: r.blockCh.Error <- PeerError{NodeID: resp.peer}; queue.retry(height)
BfSendErr ==
    /\ bf.pc = "sendErr"
    /\ Len(chError["block"]) < ChanCap
    /\ chError' = [chError EXCEPT !["block"] = Append(@, [NodeID |-> bf.resp.peer, Err |-> "invalid block"])]
    /\ queue' = Rejected(queue, bf.resp)
    /\ bf' = [bf EXCEPT !.pc = "select", !.resp = NoResp]
    /\ UNCHANGED <<state, chain, workers, savedHeaders, savedVals, delivered, handed>>
    /\ UNCHANGED <<reactorVars, syncVars, loops, chOut, budget, dispVars, rotation, added>>

\* verifier, final batch: SaveValidatorSets(queue.terminal.Height, ...)
FinalRangeAboveTerminal == queue.terminal.height + 1
FinalRangeFrom == queue.terminal.height

\* verifier: case <-queue.done()
BfQueueDone ==
    /\ bf.pc = "select"
    /\ queue.done
    /\ IF QueueFailed(queue)
       THEN /\ bf' = Returned(queue.err)
            /\ UNCHANGED savedVals
       ELSE \E valsOK \in BOOLEAN :
            /\ savedVals' = Append(savedVals,
                   [lo |-> FinalRangeFrom, hi |-> bf.lastChangeHeight,
                    vals |-> bf.lastValidatorSet, final |-> TRUE])
            /\ bf' = Returned(IF valsOK THEN "nil" ELSE "store_error")
    /\ UNCHANGED <<state, chain, queue, workers, savedHeaders, delivered, handed>>
    /\ UNCHANGED <<reactorVars, syncVars, chVars, budget, dispVars, rotation, added>>

\* verifier: case <-r.closeCh / case <-ctx.Done()
BfClosed ==
    /\ bf.pc = "select"
    /\ closeCh \/ ctxDone
    /\ queue' = close(queue)
    /\ bf' = Returned("nil")
    /\ UNCHANGED <<state, chain, workers, savedHeaders, savedVals, delivered, handed>>
    /\ UNCHANGED <<reactorVars, syncVars, chVars, budget, dispVars, rotation, added>>

\* ------------------------------------------------------------- environment
\* The caller cancels the context it passed to Sync / Backfill.
CancelCtx ==
    /\ budget.interrupts
    /\ ~ctxDone
    /\ ctxDone' = TRUE
    /\ UNCHANGED <<peers, lockVars, closeCh, connected, syncVars, bfVars, chVars, budget, dispVars, rotation, added>>

\* The router takes a PeerError off a channel's Error side.
RouteError(ch) ==
    /\ chError[ch] # <<>>
    /\ chError' = [chError EXCEPT ![ch] = Tail(@)]
    /\ UNCHANGED <<reactorVars, syncVars, bfVars, loops, chOut, budget, dispVars, rotation, added>>

\* OnStop: r.dispatcher.Close(); <-r.dispatcher.Done()
OnStopLeavesDispatcher == dispatcher
OnStopDispatcher == Close

\* Reactor.OnStop up to close(r.closeCh), the dispatcher closed first.
OnStop ==
    /\ budget.interrupts
    /\ ~closeCh
    /\ dispatcher' = OnStopDispatcher
    /\ closeCh' = TRUE
    /\ UNCHANGED <<peers, lockVars, ctxDone, connected, syncVars, bfVars, chVars, budget, lbCalls, rotation, added>>

\* ------------------------------------------------------------------- Sync
Callers == {1, 2}       \* concurrent callers of Sync, one call each

IdleSync == [c \in Callers |-> [pc |-> "idle", ret |-> "", state |-> "empty"]]

\* What Backfill can return to Sync.
BackfillResults == {"nil", "retries_exhausted", "store_error"}

\* Sync is called: r.waitForEnoughPeers(ctx, 2) starts.
SyncCall(c) ==
    /\ sync[c].pc = "idle"
    /\ sync' = [sync EXCEPT ![c].pc = "wait"]
    /\ UNCHANGED <<reactorVars, storeCalls, pu, bfVars, chVars, budget, dispVars, rotation, added>>

\* waitForEnoughPeers returns: the context is done or there are enough peers.
waitForEnoughPeers(numPeers) == ctxDone \/ Len(peers) >= numPeers

SyncWait(c) ==
    /\ sync[c].pc = "wait"
    /\ waitForEnoughPeers(2)
    /\ sync' = [sync EXCEPT ![c].pc = "lock"]
    /\ UNCHANGED <<reactorVars, storeCalls, pu, bfVars, chVars, budget, dispVars, rotation, added>>

\* Sync: if r.syncer != nil
SyncNeverInProgress == FALSE
SyncInProgress == syncer # 0

\* Sync: r.mtx.Lock(), then return "already in progress" with the mutex
\* released, or go on to initStateProvider with the mutex held.
SyncLock(c) ==
    /\ sync[c].pc = "lock"
    /\ mtx = 0
    /\ IF SyncInProgress
       THEN /\ sync' = [sync EXCEPT ![c] = [pc |-> "returned",
                                            ret |-> "sync_in_progress",
                                            state |-> "empty"]]
            /\ mtx' = mtx
       ELSE /\ sync' = [sync EXCEPT ![c].pc = "init"]
            /\ mtx' = c
    /\ UNCHANGED <<peers, syncer, stateProvider, providers, envVars>>
    /\ UNCHANGED <<storeCalls, pu, bfVars, chVars, budget, dispVars, rotation, added>>

\* Sync: initStateProvider, which assigns r.stateProvider whatever the
\* constructor returned.  On an error Sync returns with the mutex still held;
\* otherwise it sets r.syncer and releases the mutex.
SyncInit(c) ==
    /\ sync[c].pc = "init"
    /\ \E ok \in BOOLEAN :
          IF ok
          THEN /\ stateProvider' = c
               /\ syncer' = c
               /\ added' = {}
               /\ mtx' = 0
               /\ sync' = [sync EXCEPT ![c].pc = "syncAny"]
          ELSE /\ stateProvider' = 0
               /\ syncer' = syncer
               /\ added' = added
               /\ mtx' = mtx
               /\ sync' = [sync EXCEPT ![c] = [pc |-> "returned",
                                               ret |-> "state_provider_error",
                                               state |-> "empty"]]
    /\ UNCHANGED <<peers, providers, envVars>>
    /\ UNCHANGED <<storeCalls, pu, bfVars, chVars, budget, dispVars, rotation>>

\* Sync: if err != nil { return sm.State{}, err }
FailedIgnored(ok) == FALSE
Failed(ok) == ~ok

\* One of the calls Sync makes in turn: the call is made and either fails,
\* so that Sync returns its error through the deferred teardown, or succeeds.
SyncStep(c, at, call, error, next) ==
    /\ sync[c].pc = at
    /\ \E ok \in BOOLEAN :
          /\ storeCalls' = [storeCalls EXCEPT ![c] =
                               Append(@, [call |-> call, ok |-> ok, result |-> ""])]
          /\ sync' = IF Failed(ok)
                     THEN [sync EXCEPT ![c].pc = "teardown", ![c].ret = error]
                     ELSE [sync EXCEPT ![c].pc = next]
    /\ UNCHANGED <<reactorVars, pu, bfVars, chVars, budget, dispVars, rotation, added>>

\* Sync: r.syncer.SyncAny(ctx, r.cfg.DiscoveryTime, requestSnapshotsHook)
SyncAny(c) == SyncStep(c, "syncAny", "SyncAny", "sync_any_error", "bootstrap")

\* Sync: r.stateStore.Bootstrap(state)
SyncBootstrap(c) ==
    SyncStep(c, "bootstrap", "Bootstrap", "bootstrap_error", "saveSeenCommit")

\* Sync: r.blockStore.SaveSeenCommit(state.LastBlockHeight, commit)
SyncSaveSeenCommit(c) ==
    SyncStep(c, "saveSeenCommit", "SaveSeenCommit", "save_seen_commit_error", "backfill")

\* Sync: what it returns after Backfill returned err.
SyncResultPropagated(err) == err
SyncResult(err) == "nil"

\* Sync: err = r.Backfill(ctx, state); the error is logged; return state, nil
SyncBackfill(c) ==
    /\ sync[c].pc = "backfill"
    /\ \E err \in BackfillResults :
          /\ storeCalls' = [storeCalls EXCEPT ![c] =
                               Append(@, [call |-> "Backfill", ok |-> err = "nil",
                                          result |-> err])]
          /\ sync' = [sync EXCEPT ![c] = [pc |-> "teardown",
                                          ret |-> SyncResult(err),
                                          state |-> "synced"]]
    /\ UNCHANGED <<reactorVars, pu, bfVars, chVars, budget, dispVars, rotation, added>>

\* Sync, deferred: under the mutex, r.syncer = nil; r.stateProvider = nil
SyncTeardown(c) ==
    /\ sync[c].pc = "teardown"
    /\ mtx = 0
    /\ syncer' = 0
    /\ stateProvider' = 0
    /\ sync' = [sync EXCEPT ![c].pc = "returned"]
    /\ UNCHANGED <<peers, mtx, providers, envVars>>
    /\ UNCHANGED <<storeCalls, pu, bfVars, chVars, budget, dispVars, rotation, added>>

\* ----------------------------------------------------------- peer updates
IdlePu == [pc |-> "recv", NodeID |-> NoPeer, Status |-> ""]

\* processPeerUpdate, on an update: r.peers.Append / r.peers.Remove
PeersOnUpdate(p, status) ==
    IF status = "up" THEN Append(peers, p) ELSE RemoveAll(peers, p)

\* processPeerUpdates receives an update (the router reports a peer up that
\* is not connected, or down that is) and processPeerUpdate changes r.peers.
PeerUpdateRecv ==
    /\ pu.pc = "recv"
    /\ \E p \in Peers, status \in {"up", "down"} :
          /\ status = "up" <=> p \notin connected
          /\ connected' = IF status = "up" THEN connected \cup {p} ELSE connected \ {p}
          /\ peers' = PeersOnUpdate(p, status)
          /\ pu' = [pc |-> "lock", NodeID |-> p, Status |-> status]
    /\ UNCHANGED <<lockVars, closeCh, ctxDone, sync, storeCalls, bfVars, chVars, budget, dispVars, rotation, added>>

\* processPeerUpdate from r.mtx.Lock() to its return: nothing without a
\* syncer, else the peer's provider is added to or deleted from r.providers.
processPeerUpdate ==
    /\ pu.pc = "lock"
    /\ mtx = 0
    /\ providers' = IF syncer = 0 THEN providers
                    ELSE IF pu.Status = "up" THEN providers \cup {pu.NodeID}
                    ELSE providers \ {pu.NodeID}
    /\ pu' = IdlePu
    /\ UNCHANGED <<peers, mtx, syncer, stateProvider, envVars>>
    /\ UNCHANGED <<sync, storeCalls, bfVars, chVars, budget, dispVars, rotation, added>>

\* processPeerUpdates: case <-r.closeCh
PeerUpdatesClose ==
    /\ pu.pc = "recv"
    /\ closeCh
    /\ pu' = [pu EXCEPT !.pc = "closed"]
    /\ UNCHANGED <<reactorVars, sync, storeCalls, bfVars, chVars, budget, dispVars, rotation, added>>

\* ----------------------------------------------------------- channel loops
IdleLoop == [pc |-> "recv", from |-> NoPeer, msg |-> "", err |-> ""]
IdleLoops == [ch \in Channels |-> IdleLoop]

\* Inbound envelopes: the sender and the kind of message.
Envelopes == [From : Peers, Message : {"Request", "Response", "Unknown"}]
\* What a handler meets: the store or the application answers ("ok"), has
\* nothing for the request ("none"), fails ("fail"), answers with something
\* that cannot be marshalled ("invalid"), or the handler panics.
Worlds == {"ok", "none", "fail", "invalid", "panic"}

Handled(err, reply) == [err |-> err, reply |-> reply]

\* handleSnapshotMessage: one SnapshotsResponse sent per snapshot on a
\* request (here at most one snapshot), none when listing them fails.
handleSnapshotMessage(envelope, w) ==
    CASE envelope.Message = "Request" -> Handled("", w = "ok")
      [] envelope.Message = "Response" -> Handled("", FALSE)
      [] OTHER -> Handled("unknown message", FALSE)

\* handleChunkMessage: a ChunkResponse on a request unless loading fails.
handleChunkMessage(envelope, w) ==
    CASE envelope.Message = "Request" -> Handled("", w # "fail")
      [] envelope.Message = "Response" -> Handled("", FALSE)
      [] OTHER -> Handled("unknown message", FALSE)

\* fetchLightBlock: no block when the block meta, the commit or the
\* validator set is absent; the error of stateStore.LoadValidators.
fetchLightBlock(w) ==
    CASE w = "fail" -> [lb |-> "nil", err |-> "store error"]
      [] w = "none" -> [lb |-> "nil", err |-> ""]
      [] OTHER -> [lb |-> "block", err |-> ""]

\* handleLightBlockMessage: fetchLightBlock's error is returned; otherwise a
\* LightBlockResponse is sent, with a nil block when there is none, unless
\* lb.ToProto() fails, which is logged.
handleLightBlockMessage(envelope, w) ==
    CASE envelope.Message = "Request" ->
             LET f == fetchLightBlock(w) IN
             IF f.err # "" THEN Handled(f.err, FALSE)
             ELSE IF f.lb = "nil" THEN Handled("", TRUE)
             ELSE IF w = "invalid" THEN Handled("", FALSE)
             ELSE Handled("", TRUE)
      [] envelope.Message = "Response" -> Handled("", FALSE)
      [] OTHER -> Handled("unknown message", FALSE)

\* handleParamsMessage: a ParamsResponse on a request unless loading fails.
handleParamsMessage(envelope, w) ==
    CASE envelope.Message = "Request" -> Handled("", w # "fail")
      [] envelope.Message = "Response" -> Handled("", FALSE)
      [] OTHER -> Handled("unknown message", FALSE)

\* handleMessage: the handler of the channel, a panic in it recovered and
\* turned into the error.
handleMessage(chID, envelope, w) ==
    IF w = "panic" THEN Handled("panic", FALSE)
    ELSE CASE chID = "snapshot" -> handleSnapshotMessage(envelope, w)
           [] chID = "chunk" -> handleChunkMessage(envelope, w)
           [] chID = "block" -> handleLightBlockMessage(envelope, w)
           [] chID = "params" -> handleParamsMessage(envelope, w)
           [] OTHER -> Handled("unknown channel", FALSE)

\* processCh: if err := r.handleMessage(ch.ID, envelope); err != nil
ErrorDropped(err) == FALSE
ErrorReported(err) == err # ""

\* handleSnapshotMessage / handleChunkMessage on a response: if r.syncer == nil
SyncerNilIgnored == FALSE
SyncerNil == syncer = 0

\* The handlers that take r.mtx.RLock(): those of a SnapshotsResponse, a
\* ChunkResponse and a ParamsResponse.
TakesRLock(ch, envelope) ==
    envelope.Message = "Response" /\ ch \in {"snapshot", "chunk", "params"}

\* r.syncer.AddSnapshot(envelope.From, ...) / r.syncer.AddChunk(&chunk{...,
\* Sender: envelope.From}), unless no sync is in progress.
AddedBy(ch, envelope) ==
    IF envelope.Message = "Response" /\ ch \in {"snapshot", "chunk"} /\ ~SyncerNil
    THEN added \cup {[call |-> IF ch = "snapshot" THEN "AddSnapshot" ELSE "AddChunk",
                       peer |-> envelope.From]}
    ELSE added

\* processCh: case envelope := <-ch.In, up to the first send the handler or
\* the loop blocks on, for the envelope received and what the handler meets.
ChRecvEnvelope(ch, envelope, w) ==
    LET r == handleMessage(ch, envelope, w)
        next == IF r.reply THEN "sendOut"
                ELSE IF ErrorReported(r.err) THEN "sendErr"
                ELSE "recv"
    IN  /\ loops[ch].pc = "recv"
        /\ ch \in budget.channels
        /\ (TakesRLock(ch, envelope) /\ w # "panic") => mtx = 0
        /\ loops' = [loops EXCEPT ![ch] =
                         [pc |-> next,
                          from |-> IF next = "recv" /\ r.err = ""
                                   THEN NoPeer ELSE envelope.From,
                          msg |-> IF next = "recv" /\ r.err = ""
                                  THEN "" ELSE envelope.Message,
                          err |-> r.err]]
        /\ IF ch = "block" /\ envelope.Message = "Response" /\ w # "panic"
           THEN \E block \in ResponseBlocks :
                   dispatcher' = Respond(block, envelope.From)
           ELSE UNCHANGED dispatcher
        /\ added' = IF w = "panic" THEN added ELSE AddedBy(ch, envelope)
        /\ UNCHANGED <<reactorVars, syncVars, bfVars, chOut, chError, budget,
                       lbCalls, rotation>>

ChRecv(ch) ==
    \E envelope \in Envelopes, w \in Worlds : ChRecvEnvelope(ch, envelope, w)

\* handler: ch.Out <- p2p.Envelope{To: envelope.From, ...}; return nil
ChSendOut(ch) ==
    /\ loops[ch].pc = "sendOut"
    /\ Len(chOut[ch]) < ChanCap
    /\ chOut' = [chOut EXCEPT ![ch] = Append(@, [To |-> loops[ch].from])]
    /\ loops' = [loops EXCEPT ![ch] = IdleLoop]
    /\ UNCHANGED <<reactorVars, syncVars, bfVars, chError, budget, dispVars, rotation, added>>

\* processCh: ch.Error <- p2p.PeerError{NodeID: envelope.From, Err: err}
ChSendErr(ch) ==
    /\ loops[ch].pc = "sendErr"
    /\ Len(chError[ch]) < ChanCap
    /\ chError' = [chError EXCEPT ![ch] =
                      Append(@, [NodeID |-> loops[ch].from, Err |-> loops[ch].err])]
    /\ loops' = [loops EXCEPT ![ch] = IdleLoop]
    /\ UNCHANGED <<reactorVars, syncVars, bfVars, chOut, budget, dispVars, rotation, added>>

\* processCh: case <-r.closeCh
ChClose(ch) ==
    /\ loops[ch].pc = "recv"
    /\ closeCh
    /\ loops' = [loops EXCEPT ![ch] = [IdleLoop EXCEPT !.pc = "closed"]]
    /\ UNCHANGED <<reactorVars, syncVars, bfVars, chOut, chError, budget, dispVars, rotation, added>>

\* The router takes an envelope off a channel's Out side.
RouteOut(ch) ==
    /\ chOut[ch] # <<>>
    /\ chOut' = [chOut EXCEPT ![ch] = Tail(@)]
    /\ UNCHANGED <<reactorVars, syncVars, bfVars, loops, chError, budget, dispVars, rotation, added>>

\* ------------------------------------------------------- SpecBackfill
\* Canonical chains: the validator set of every height up to MaxHeight + 1.
Chains == {c \in [1..(MaxHeight + 1) -> ValSets] : c[MaxHeight + 1] = 1}
ConstantChain == [h \in 1..(MaxHeight + 1) |-> 1]
AlternatingChain == [h \in 1..(MaxHeight + 1) |-> 1 + (h % 2)]
\* Evidence parameters (max age in blocks, max age as a duration); with
\* MaxHeight blocks of age the stop height is floored to the initial height.
Ages == {1, MaxHeight} \X {0, 2, MaxHeight}
Floored == <<MaxHeight, 0>>
\* The back-fills checked, as <<evidence parameters, chain, budget>>:
\* every chain and choice of evidence parameters with honest peers, every
\* choice of evidence parameters with one faulty answer, a back-fill down to
\* the initial height with one faulty answer that can be cancelled or
\* stopped, and two short ones with as many faulty answers as exhaust a
\* height's retries, one of which can be cancelled or stopped.
Scenarios ==
    (Ages \X Chains \X {[faults |-> 0, interrupts |-> FALSE]})
    \cup (Ages \X {ConstantChain, AlternatingChain}
               \X {[faults |-> 1, interrupts |-> FALSE]})
    \cup ({Floored} \X {AlternatingChain}
               \X {[faults |-> 1, interrupts |-> TRUE]})
    \cup ({<<1, 0>>} \X {AlternatingChain}
               \X {[faults |-> MaxRetries + 1, interrupts |-> FALSE]})
    \cup ({<<1, 0>>} \X {ConstantChain}
               \X {[faults |-> MaxRetries + 1, interrupts |-> TRUE]})

\* The reactor as NewReactor leaves it, started, with no call of Sync yet.
InitRest ==
    /\ closeCh = FALSE /\ ctxDone = FALSE
    /\ pu = IdlePu
    /\ loops = IdleLoops
    /\ chOut = [ch \in Channels |-> <<>>]
    /\ chError = [ch \in Channels |-> <<>>]
    /\ dispatcher = NewDispatcher
    /\ lbCalls = IdleCalls
    /\ rotation = IdleRotation
    /\ added = {}

InitNoCalls ==
    /\ mtx = 0 /\ syncer = 0 /\ stateProvider = 0 /\ providers = {}
    /\ sync = IdleSync /\ storeCalls = [c \in Callers |-> <<>>]

\* A sync in progress: the first caller's Sync has initialised the state
\* provider and the syncer, released the mutex and is in SyncAny.
InitSyncing ==
    /\ mtx = 0 /\ syncer = 1 /\ stateProvider = 1 /\ providers = {}
    /\ sync = [IdleSync EXCEPT ![1].pc = "syncAny"]
    /\ storeCalls = [c \in Callers |-> <<>>]

InitNoBackfill ==
    /\ chain = ConstantChain
    /\ state = [LastBlockHeight |-> MaxHeight, LastBlockTime |-> MaxHeight,
                InitialHeight |-> 1, MaxAgeNumBlocks |-> 1, MaxAgeDuration |-> 0,
                LastBlockID |-> Hash([height |-> MaxHeight, forged |-> FALSE,
                                      basicOK |-> TRUE])]
    /\ bf = IdleBf /\ queue = NoQueue
    /\ workers = [w \in Fetchers |-> IdleWorker]
    /\ savedHeaders = <<>> /\ savedVals = <<>> /\ delivered = <<>>
    /\ handed = [h \in Heights |-> 0]

InitBackfill ==
    /\ InitRest
    /\ InitNoCalls
    /\ peers = <<1, 2>>
    /\ connected = {1, 2}
    /\ \E sc \in Scenarios :
          /\ chain = sc[2]
          /\ budget = sc[3]
          /\ state = [LastBlockHeight |-> MaxHeight, LastBlockTime |-> MaxHeight,
                      InitialHeight |-> 1, MaxAgeNumBlocks |-> sc[1][1],
                      MaxAgeDuration |-> sc[1][2],
                      LastBlockID |-> Hash(CanonicalBlock(MaxHeight))]
    /\ bf = IdleBf /\ queue = NoQueue
    /\ workers = [w \in Fetchers |-> IdleWorker]
    /\ savedHeaders = <<>> /\ savedVals = <<>> /\ delivered = <<>>
    /\ handed = [h \in Heights |-> 0]

NextBackfill ==
    \/ Backfill
    \/ \E w \in Fetchers : WorkerNextHeight(w)
    \/ \E w \in Fetchers : WorkerQueueDone(w)
    \/ \E w \in Fetchers : WorkerPop(w)
    \/ \E w \in Fetchers : WorkerFetch(w)
    \/ \E w \in Fetchers : WorkerRemove(w)
    \/ \E w \in Fetchers : WorkerSendErr(w)
    \/ BfVerifyNext
    \/ BfSendErr
    \/ BfQueueDone
    \/ BfClosed
    \/ CancelCtx
    \/ OnStop
    \/ RouteError("block")

SpecBackfill == InitBackfill /\ [][NextBackfill]_vars

\* Back-fills in which every fetch is answered with the canonical block and
\* nobody cancels: the steps of the workers and of the verifier, each of them
\* a goroutine that runs whenever it can.
InitHonest == InitBackfill /\ budget.faults = 0 /\ ~budget.interrupts

NextHonest ==
    \/ Backfill
    \/ \E w \in Fetchers : WorkerNextHeight(w)
    \/ \E w \in Fetchers : WorkerQueueDone(w)
    \/ \E w \in Fetchers : WorkerPop(w)
    \/ \E w \in Fetchers : WorkerFetch(w)
    \/ \E w \in Fetchers : WorkerRemove(w)
    \/ BfVerifyNext
    \/ BfQueueDone

SpecBackfillHonest ==
    /\ InitHonest
    /\ [][NextHonest]_vars
    /\ WF_vars(Backfill)
    /\ WF_vars(BfVerifyNext)
    /\ WF_vars(BfQueueDone)
    /\ \A w \in Fetchers :
          /\ WF_vars(WorkerNextHeight(w))
          /\ WF_vars(WorkerQueueDone(w))
          /\ WF_vars(WorkerPop(w))
          /\ WF_vars(WorkerFetch(w))
          /\ WF_vars(WorkerRemove(w))

\* The back-fills of SpecBackfill with the workers and the verifier as
\* goroutines that run whenever they can: a step that stays possible is
\* taken, and a select takes each of its cases that is ready again and again
\* (the done and close cases).  Nothing is assumed of the receiver of
\* r.blockCh.Error or of the caller's context.  The back-fills are the short
\* ones in which peers give as many faulty answers as exhaust a height's
\* retries.
InitFaulty == InitBackfill /\ budget.faults > MaxRetries

SpecBackfillFair ==
    /\ InitFaulty
    /\ [][NextBackfill]_vars
    /\ WF_vars(Backfill)
    /\ WF_vars(BfVerifyNext)
    /\ WF_vars(BfSendErr)
    /\ SF_vars(BfQueueDone)
    /\ SF_vars(BfClosed)
    /\ \A w \in Fetchers :
          /\ WF_vars(WorkerNextHeight(w))
          /\ SF_vars(WorkerQueueDone(w))
          /\ WF_vars(WorkerPop(w))
          /\ WF_vars(WorkerFetch(w))
          /\ WF_vars(WorkerRemove(w))
          /\ WF_vars(WorkerSendErr(w))


\* ------------------------------------------------------------------- Spec
\* Two callers of Sync, the peer-update loop, and a caller's context that
\* can be cancelled and a reactor that can be stopped at any time.
Init ==
    /\ InitRest
    /\ InitNoCalls
    /\ InitNoBackfill
    /\ peers = <<>>
    /\ connected = {}
    /\ budget = [faults |-> 0, interrupts |-> TRUE, channels |-> {}]

Next ==
    \/ \E c \in Callers : SyncCall(c)
    \/ \E c \in Callers : SyncWait(c)
    \/ \E c \in Callers : SyncLock(c)
    \/ \E c \in Callers : SyncInit(c)
    \/ \E c \in Callers : SyncAny(c)
    \/ \E c \in Callers : SyncBootstrap(c)
    \/ \E c \in Callers : SyncSaveSeenCommit(c)
    \/ \E c \in Callers : SyncBackfill(c)
    \/ \E c \in Callers : SyncTeardown(c)
    \/ PeerUpdateRecv
    \/ processPeerUpdate
    \/ PeerUpdatesClose
    \/ CancelCtx
    \/ OnStop

Spec == Init /\ [][Next]_vars

\* ----------------------------------------------------------------- SpecCh
\* The four channel loops with a router that keeps taking what they send.
\* Envelopes arrive on one of the channels in a run, any of the four; the
\* loops of the others wait at their receive until the reactor is stopped.
\* Either no Sync has been called, or a sync is in progress throughout and
\* the envelopes arrive on a channel whose responses go to the syncer.
Traffic == {{ch} : ch \in Channels}

InitCh ==
    /\ InitRest
    /\ InitNoBackfill
    /\ peers = <<1, 2>>
    /\ connected = {1, 2}
    /\ \E chs \in Traffic :
          budget = [faults |-> 0, interrupts |-> TRUE, channels |-> chs]
    /\ InitNoCalls \/ (InitSyncing /\ budget.channels \subseteq {"snapshot", "chunk"})

NextCh ==
    \/ \E ch \in Channels : ChRecv(ch)
    \/ \E ch \in Channels : ChSendOut(ch)
    \/ \E ch \in Channels : ChSendErr(ch)
    \/ \E ch \in Channels : ChClose(ch)
    \/ \E ch \in Channels : RouteOut(ch)
    \/ \E ch \in Channels : RouteError(ch)
    \/ OnStop

SpecCh ==
    /\ InitCh
    /\ [][NextCh]_vars
    /\ \A ch \in Channels :
          /\ WF_vars(ChSendOut(ch))
          /\ WF_vars(ChSendErr(ch))
          /\ WF_vars(RouteOut(ch))
          /\ WF_vars(RouteError(ch))

\* --------------------------------------------------------------- SpecStop
\* The reactor being stopped around the start of a sync: the callers of Sync
\* up to the point where the syncer is set, the peer-update loop and the
\* four channel loops, on which no envelope arrives.  Every goroutine runs
\* whenever it can: a call of Sync that holds the mutex goes on, the
\* peer-update loop takes the mutex when it is free, and a loop at its select
\* takes the close case when it stays ready.
InitStop ==
    /\ InitRest
    /\ InitNoCalls
    /\ InitNoBackfill
    /\ peers = <<>>
    /\ connected = {}
    /\ budget = [faults |-> 0, interrupts |-> TRUE, channels |-> {}]

NextStop ==
    \/ \E c \in Callers : SyncCall(c)
    \/ \E c \in Callers : SyncWait(c)
    \/ \E c \in Callers : SyncLock(c)
    \/ \E c \in Callers : SyncInit(c)
    \/ PeerUpdateRecv
    \/ processPeerUpdate
    \/ PeerUpdatesClose
    \/ \E ch \in Channels : ChClose(ch)
    \/ OnStop

SpecStop ==
    /\ InitStop
    /\ [][NextStop]_vars
    /\ \A c \in Callers : WF_vars(SyncInit(c))
    /\ WF_vars(processPeerUpdate)
    /\ SF_vars(PeerUpdatesClose)
    /\ \A ch \in Channels : WF_vars(ChClose(ch))

\* --------------------------------------------------------- SpecDispatcher
\* The fetch workers' calls of dispatcher.LightBlock, for any height and any
\* peer popped (the sentinel included), the responses peers send, solicited
\* or not, the timeouts, a caller's context that can be cancelled and a
\* reactor that can be stopped; calls and router run whenever they can.
InitDispatcher ==
    /\ InitRest
    /\ InitNoCalls
    /\ InitNoBackfill
    /\ peers = <<>>
    /\ connected = {}
    /\ budget = [faults |-> 0, interrupts |-> TRUE, channels |-> {}]

NextDispatcher ==
    \/ \E w \in Fetchers, height \in Heights, peer \in Peers \cup {NoPeer} :
          LightBlock(w, height, peer)
    \/ \E w \in Fetchers : LightBlockTimeout(w)
    \/ \E w \in Fetchers : LightBlockReturn(w)
    \/ \E w \in Fetchers : LightBlockNext(w)
    \/ \E from \in Peers, block \in ResponseBlocks : LightBlockResponse(from, block)
    \/ RouteOut("block")
    \/ CancelCtx
    \/ OnStop

SpecDispatcher ==
    /\ InitDispatcher
    /\ [][NextDispatcher]_vars
    /\ WF_vars(RouteOut("block"))
    /\ \A w \in Fetchers : WF_vars(LightBlockReturn(w))

\* ------------------------------------------------------------- SpecReport
\* A short back-fill in which the workers fetch through the dispatcher: the
\* request goes out on the block channel, and whatever LightBlockResponse
\* comes in, from whichever peer, is handed to Respond.
InitReport ==
    /\ InitBackfill
    /\ chain = ConstantChain
    /\ state.MaxAgeNumBlocks = 1 /\ state.MaxAgeDuration = 0
    /\ budget = [faults |-> 0, interrupts |-> FALSE]

\* Blocks a peer sends in a LightBlockResponse here: the block of the first
\* height fetched (not the block of the other heights asked for), or a block
\* of that height that fails ValidateBasic.
ReportBlocks ==
    {CanonicalBlock(MaxHeight),
     [height |-> MaxHeight, forged |-> FALSE, basicOK |-> FALSE]}

NextReport ==
    \/ Backfill
    \/ \E w \in Fetchers : WorkerNextHeight(w)
    \/ \E w \in Fetchers : WorkerQueueDone(w)
    \/ \E w \in Fetchers : WorkerPop(w)
    \/ \E w \in Fetchers : WorkerCall(w)
    \/ \E w \in Fetchers : LightBlockReturn(w)
    \/ \E w \in Fetchers : WorkerFetchCall(w)
    \/ \E w \in Fetchers : WorkerSendErr(w)
    \/ \E from \in Peers, block \in ReportBlocks : LightBlockResponse(from, block)
    \/ RouteOut("block")
    \/ RouteError("block")
    \/ BfVerifyNext
    \/ BfQueueDone

SpecReport == InitReport /\ [][NextReport]_vars

\* ----------------------------------------------------------- SpecRotation
\* The fetch workers going round the peer list, all peers connected.
InitRotation ==
    /\ InitRest
    /\ InitNoCalls
    /\ InitNoBackfill
    /\ peers = <<1, 2>>
    /\ connected = {1, 2}
    /\ budget = [faults |-> 0, interrupts |-> FALSE, channels |-> {}]

NextRotation ==
    \/ \E w \in Fetchers : RotationPop(w)
    \/ \E w \in Fetchers : RotationAppend(w)

SpecRotation == InitRotation /\ [][NextRotation]_vars

\* -------------------------------------------------------------- SpecPeers
\* The fetch workers going round the peer list while the router reports
\* peers up and down.
InitPeers ==
    /\ InitRest
    /\ InitNoCalls
    /\ InitNoBackfill
    /\ peers = <<1, 2>>
    /\ connected = {1, 2}
    /\ budget = [faults |-> 0, interrupts |-> FALSE, channels |-> {}]

NextPeers ==
    \/ \E w \in Fetchers : RotationPop(w)
    \/ \E w \in Fetchers : RotationAppend(w)
    \/ PeerUpdateRecv
    \/ processPeerUpdate

SpecPeers == InitPeers /\ [][NextPeers]_vars

\* ------------------------------------------------------------ Sync claims
Active(c) ==
    sync[c].pc \in {"init", "syncAny", "bootstrap", "saveSeenCommit",
                    "backfill", "teardown"}

\* C1: a Sync call that finds the syncer set returns the "already in
\* progress" error and changes neither the syncer, the state provider, the
\* mutex, the calls made on the stores nor the other call; and at most one
\* call is between the initialisation of the state provider and its teardown.
OneSyncAtATime ==
    /\ [](Cardinality({c \in Callers : Active(c)}) <= 1)
    /\ [][\A c \in Callers :
            /\ (sync[c].pc = "lock" /\ sync'[c] # sync[c] /\ syncer # 0) =>
                   sync'[c] = [pc |-> "returned", ret |-> "sync_in_progress",
                               state |-> "empty"]
            /\ (sync[c].pc = "lock" /\ sync'[c].ret = "sync_in_progress") =>
                   /\ UNCHANGED <<mtx, syncer, stateProvider, providers, storeCalls>>
                   /\ \A d \in Callers \ {c} : sync'[d] = sync[d]]_vars

\* C1 witness: one call was turned away and the other went on to return the
\* synced state.
RejectedWhileOtherSynced ==
    \E c \in Callers, d \in Callers :
        /\ sync[c].pc = "returned" /\ sync[c].ret = "sync_in_progress"
        /\ storeCalls[c] = <<>>
        /\ sync[d].pc = "returned" /\ sync[d].ret = "nil" /\ sync[d].state = "synced"

\* C2 as claimed: with no Sync call in progress the syncer and the state
\* provider are unset and the provider map is empty.
TornDownWhenNoSync ==
    (\A c \in Callers : sync[c].pc \in {"idle", "returned"}) =>
        syncer = 0 /\ stateProvider = 0 /\ providers = {}

SyncSteps == <<"SyncAny", "Bootstrap", "SaveSeenCommit", "Backfill">>
StepErrors == <<"sync_any_error", "bootstrap_error", "save_seen_commit_error">>

\* C3: the calls of one Sync are SyncAny, Bootstrap, SaveSeenCommit, Backfill
\* in this order, each made only after the one before succeeded; when one of
\* the first three fails Sync returns its error with an empty state.
SyncStepsGated ==
    \A c \in Callers :
        LET log == storeCalls[c] IN
        /\ Len(log) <= 4
        /\ \A i \in 1..Len(log) :
              /\ log[i].call = SyncSteps[i]
              /\ i < Len(log) => log[i].ok
              /\ (i <= 3 /\ ~log[i].ok) =>
                    /\ sync[c].pc \in {"teardown", "returned"}
                    /\ sync[c].ret = StepErrors[i]
                    /\ sync[c].state = "empty"

\* C3 witness: Bootstrap failed after SyncAny succeeded, and Sync returned.
ReturnedBootstrapError ==
    \E c \in Callers :
        /\ sync[c].pc = "returned"
        /\ sync[c].ret = "bootstrap_error"
        /\ Len(storeCalls[c]) = 2

\* C4: once SyncAny, Bootstrap and SaveSeenCommit succeeded, Backfill is
\* called and Sync returns the synced state and no error, whatever Backfill
\* returned.
BackfillFailureSwallowed ==
    \A c \in Callers :
        LET log == storeCalls[c] IN
        (/\ sync[c].pc \in {"teardown", "returned"}
         /\ Len(log) >= 3
         /\ \A i \in 1..3 : log[i].ok) =>
            /\ Len(log) = 4
            /\ log[4].result \in BackfillResults
            /\ sync[c].ret = "nil"
            /\ sync[c].state = "synced"

\* C4 witness: Backfill ran out of retries and Sync returned the state.
ReturnedAfterBackfillFailed ==
    \E c \in Callers :
        /\ sync[c].pc = "returned"
        /\ sync[c].ret = "nil"
        /\ Len(storeCalls[c]) = 4
        /\ storeCalls[c][4].result = "retries_exhausted"

\* ------------------------------------------------------ back-fill claims
StartHeight == state.LastBlockHeight

\* backfill returned nil from the queue.done() case, after the final
\* SaveValidatorSets call.
Completed ==
    /\ bf.pc = "returned"
    /\ bf.result = "nil"
    /\ savedVals # <<>>
    /\ savedVals[Len(savedVals)].final

\* C5: the SaveSignedHeader calls go down from the start height one height
\* at a time, the first header hashing to the trusted block id handed to
\* Backfill and every later one to the LastBlockID of the header before it.
HeadersHashLinked ==
    \A i \in 1..Len(savedHeaders) :
        /\ savedHeaders[i].height = StartHeight - (i - 1)
        /\ savedHeaders[i].hash =
              IF i = 1 THEN state.LastBlockID ELSE savedHeaders[i - 1].lastBlockID

\* C5 witness: headers were saved after the verifier had turned down a block.
HeadersSavedAfterRejection ==
    /\ Len(savedHeaders) >= 2
    /\ \E i \in 1..Len(delivered) : ~delivered[i].accepted

\* C6 as claimed: the heights delivered on verifyNext are start, start - 1, ...
\* with no height delivered twice.
DeliveredStrictlyDecreasing ==
    \A i \in 1..Len(delivered) : delivered[i].height = StartHeight - (i - 1)

\* C6 amended: the first delivery is for start; after a delivery the verifier
\* accepted the next one is for the height one below, and after a delivery the
\* verifier rejected the next one is for the same height again.
DeliveredInOrder ==
    \A i \in 1..Len(delivered) :
        delivered[i].height =
            IF i = 1 THEN StartHeight
            ELSE IF delivered[i - 1].accepted THEN delivered[i - 1].height - 1
            ELSE delivered[i - 1].height

\* C6 witness: a height was delivered a second time and then the one below.
RedeliveredThenNext ==
    \E i \in 3..Len(delivered) :
        /\ delivered[i - 1].height = delivered[i - 2].height
        /\ delivered[i].height = delivered[i - 1].height - 1

\* The maximal ranges of heights in lo..hi over which the canonical chain
\* keeps one validator set.
ValSetRuns(lo, hi) ==
    {r \in (lo..hi) \X (lo..hi) :
        /\ r[1] <= r[2]
        /\ \A h \in r[1]..r[2] : chain[h] = chain[r[1]]
        /\ r[1] = lo \/ chain[r[1] - 1] # chain[r[1]]
        /\ r[2] = hi \/ chain[r[2] + 1] # chain[r[2]]}

\* C7: after a completed back-fill every maximal range of verified heights
\* with one validator set has exactly one SaveValidatorSets call, made with
\* that set, and there is no other call.
ValidatorSetsCollapsed ==
    Completed =>
        LET runs == ValSetRuns(queue.terminal.height, StartHeight)
            calls(r) == {i \in 1..Len(savedVals) :
                            savedVals[i].lo = r[1] /\ savedVals[i].hi = r[2]}
        IN  /\ \A r \in runs :
                 /\ Cardinality(calls(r)) = 1
                 /\ \A i \in calls(r) : savedVals[i].vals = chain[r[1]]
            /\ \A i \in 1..Len(savedVals) :
                 <<savedVals[i].lo, savedVals[i].hi>> \in runs

\* C7 witness: a completed back-fill that saved two ranges, the first one of
\* more than one height.
TwoRangesSaved ==
    /\ Completed
    /\ Len(savedVals) = 2
    /\ savedVals[1].lo < savedVals[1].hi

\* The stop height and stop time as the evidence parameters define them.
FloorTaken == state.LastBlockHeight - state.MaxAgeNumBlocks < state.InitialHeight
EvidenceStopHeight ==
    IF FloorTaken THEN state.InitialHeight
    ELSE state.LastBlockHeight - state.MaxAgeNumBlocks
EvidenceStopTime ==
    IF FloorTaken THEN state.LastBlockTime
    ELSE state.LastBlockTime - state.MaxAgeDuration
OldEnough(h) ==
    h <= EvidenceStopHeight /\ BlockTime(CanonicalBlock(h)) <= EvidenceStopTime
\* The highest height that is old enough, or else the initial height.
TerminalHeight ==
    SetMax({h \in state.InitialHeight..StartHeight :
               OldEnough(h) \/ h = state.InitialHeight})

\* C8 as claimed: a completed back-fill ended at the first block that is old
\* enough, or at the initial height with the stop height floored to it.
EndsAtOldEnoughOrFloored ==
    Completed =>
        LET t == queue.terminal.height IN
        \/ OldEnough(t) /\ \A h \in (t + 1)..StartHeight : ~OldEnough(h)
        \/ t = state.InitialHeight /\ FloorTaken

\* C8 amended, safety: no header below the terminal height is saved, and a
\* completed back-fill has saved every height from start down to the
\* terminal height, which is the first old enough block or else the initial
\* height.
EndsAtTerminal ==
    /\ \A i \in 1..Len(savedHeaders) : savedHeaders[i].height >= TerminalHeight
    /\ Completed =>
          /\ queue.terminal.height = TerminalHeight
          /\ Len(savedHeaders) = StartHeight - TerminalHeight + 1

\* C8 amended: with every fetch answered honestly back-fill returns, and
\* EndsAtTerminal holds throughout.
HonestBackfillTerminates == <>(bf.pc = "returned") /\ []EndsAtTerminal

\* C8 witness: a completed back-fill that went below the stop height and ended
\* at the initial height on a block that is not old enough, no floor taken.
EndedAtInitialNotFloored ==
    /\ Completed
    /\ ~FloorTaken
    /\ queue.terminal.height = state.InitialHeight
    /\ queue.terminal.height < EvidenceStopHeight
    /\ ~OldEnough(queue.terminal.height)

FinalSaved == \E i \in 1..Len(savedVals) : savedVals[i].final
RetryBound ==
    /\ \A h \in Heights : handed[h] <= MaxRetries + 1
    /\ \A h \in Heights :
          queue.retries[h] > MaxRetries => queue.done /\ queue.err = "retries_exhausted"

\* C9 as claimed: no height is handed out more than MaxRetries + 1 times, a
\* height over the limit ends the queue with an error, and backfill returns
\* that error without the final SaveValidatorSets call.
RetriesExhaustedReturned ==
    /\ RetryBound
    /\ queue.err # "" => ~FinalSaved
    /\ bf.pc = "returned" /\ queue.err # "" => bf.result = queue.err

\* C9 amended: as above, but backfill returns the queue's error only when
\* nothing ended it first: it returns nil when the context was cancelled or
\* the reactor stopped, and the store's error when a store call had failed.
RetriesExhaustedHandled ==
    /\ RetryBound
    /\ queue.err # "" => ~FinalSaved
    /\ bf.pc = "returned" /\ queue.err # "" =>
          \/ bf.result = queue.err
          \/ bf.result = "nil" /\ (ctxDone \/ closeCh)
          \/ bf.result = "store_error"

\* C9 witness: a height was handed out MaxRetries + 1 times, failed again, and
\* backfill returned the queue's error.
ReturnedRetriesExhausted ==
    /\ bf.pc = "returned"
    /\ bf.result = "retries_exhausted"
    /\ \E h \in Heights : handed[h] = MaxRetries + 1 /\ queue.retries[h] = MaxRetries + 1

\* --------------------------------------------------- channel loop claims
\* C10: when the handler of an envelope returns an error or panics, the loop
\* goes on to send a PeerError naming the envelope's sender on the channel's
\* Error side, sends it, and is back at receiving envelopes; a loop ends only
\* at its receive, once the reactor is stopped.
HandlerErrorReported ==
    /\ [][\A ch \in Channels :
            /\ (loops[ch].pc = "recv" /\ loops'[ch] # loops[ch]
                   /\ loops'[ch].err # "") =>
                   loops'[ch].pc = "sendErr" /\ loops'[ch].from \in Peers
            /\ (loops[ch].pc = "sendErr" /\ loops'[ch] # loops[ch]) =>
                   /\ chError'[ch] = Append(chError[ch],
                          [NodeID |-> loops[ch].from, Err |-> loops[ch].err])
                   /\ loops'[ch].pc = "recv"
            /\ (loops[ch].pc # "closed" /\ loops'[ch].pc = "closed") =>
                   loops[ch].pc = "recv" /\ closeCh]_vars
    /\ \A ch \in Channels : loops[ch].pc = "sendErr" ~> loops[ch].pc = "recv"

\* C10 witness: a panic was reported as a PeerError and the loop has taken
\* the next envelope, which it is answering.
NextHandledAfterPanic ==
    \E ch \in Channels :
        /\ chError[ch] # <<>>
        /\ Head(chError[ch]).Err = "panic"
        /\ loops[ch].pc = "sendOut"

\* ------------------------------------------------------ dispatcher claims
CancellationErrors == {"canceled", "deadline exceeded"}
\* A step of Respond: the dispatcher changes, the calls and done do not.
RespondStep ==
    /\ dispatcher' # dispatcher
    /\ dispatcher'.done = dispatcher.done
    /\ lbCalls' = lbCalls

\* C11: a call of LightBlock for a peer made while a request is outstanding
\* returns pending at once and leaves the dispatcher, and so the outstanding
\* request, as it was; the call that waits is the one the slot belongs to; a
\* response handed to Respond while the request is unanswered lands in that
\* request's reply, and the waiting call that returns a block returns that one.
PendingLeavesOutstandingRequest ==
    [][/\ \A w \in Fetchers :
            (/\ lbCalls[w].pc = "idle" /\ lbCalls'[w].pc # "idle"
             /\ dispatcher.slot # NoCall
             /\ lbCalls'[w].result.err # "no_peer") =>
                /\ lbCalls'[w].pc = "returned"
                /\ lbCalls'[w].result.err = "pending"
                /\ dispatcher' = dispatcher
       /\ \A w \in Fetchers :
            lbCalls'[w].pc = "waiting" <=> dispatcher'.slot.owner = w
       /\ (RespondStep /\ dispatcher.slot # NoCall /\ dispatcher.slot.reply = <<>>) =>
            /\ dispatcher'.slot.reply # <<>>
            /\ dispatcher'.slot = [dispatcher.slot EXCEPT !.reply = dispatcher'.slot.reply]
       /\ \A w \in Fetchers :
            (/\ lbCalls[w].pc = "waiting" /\ lbCalls'[w].pc = "returned"
             /\ lbCalls'[w].result.err = "") =>
                /\ dispatcher.slot.owner = w
                /\ dispatcher.slot.reply = <<lbCalls'[w].result.block>>]_vars

\* C11 witness: one worker's call was turned down with pending, the other's
\* has returned the block of a response.
PendingAndBlockReturned ==
    \E w1, w2 \in Fetchers :
        /\ w1 # w2
        /\ lbCalls[w2].pc = "returned" /\ lbCalls[w2].result.err = "pending"
        /\ lbCalls[w1].pc = "returned" /\ lbCalls[w1].result.err = ""
        /\ lbCalls[w1].result.block \in LightBlocks

\* C12: a waiting call that returns while no response has arrived returns a
\* cancellation error and leaves the slot empty; a response handed to
\* Respond while the slot is empty is dropped and leaves it empty; the
\* dispatcher is closed once the reactor's close channel is; and a call that
\* waits when its context is done, its timeout has fired or the dispatcher
\* is closed does return.
CancelledCallClearsSlot ==
    /\ [][/\ \A w \in Fetchers :
               (/\ lbCalls[w].pc = "waiting" /\ lbCalls'[w].pc = "returned"
                /\ dispatcher.slot.reply = <<>>) =>
                   /\ ctxDone \/ lbCalls[w].timeout \/ dispatcher.done
                   /\ lbCalls'[w].result.err \in CancellationErrors
                   /\ dispatcher'.slot = NoCall
          /\ (RespondStep /\ dispatcher.slot = NoCall) =>
               (dispatcher'.slot = NoCall /\ dispatcher'.last = "dropped")
          /\ (closeCh' => dispatcher'.done)]_vars
    /\ \A w \in Fetchers :
          (lbCalls[w].pc = "waiting"
              /\ (ctxDone \/ lbCalls[w].timeout \/ closeCh))
          ~> (lbCalls[w].pc # "waiting")

\* C12 witness: a call has timed out, a response that came after it was
\* dropped, and the other worker's request is installed.
TimedOutDroppedInstalled ==
    \E w1, w2 \in Fetchers :
        /\ lbCalls[w1].pc = "returned"
        /\ lbCalls[w1].result.err = "deadline exceeded"
        /\ dispatcher.last = "dropped"
        /\ lbCalls[w2].pc = "waiting"
        /\ dispatcher.slot.owner = w2 /\ dispatcher.slot.reply = <<>>

\* ------------------------------------------------------- peer list claims
\* C13 as stated: whatever the workers do, every peer has been selected at
\* least floor(total pops / number of peers) times.
EveryPeerSelectedFairly ==
    \A p \in Peers : rotation.selected[p] >= TotalPops \div Cardinality(Peers)

\* C13, amended: as long as no pop was made while another worker held a
\* peer (every peer was appended back before the next pop), every peer has
\* been selected at least floor(total pops / number of peers) times.
SequentialRotationFair ==
    ~rotation.overlapped => EveryPeerSelectedFairly

\* C13 witness: both workers have taken turns, four pops and none of them
\* while a peer was held.
FourPopsInTurn ==
    /\ ~rotation.overlapped
    /\ TotalPops >= 4
    /\ \A w \in Fetchers : rotation.held[w] = NoPeer

\* ------------------------------------------------ back-fill scenario claims
\* Honest peers (as in every run of SpecBackfillHonest) and one validator
\* set throughout.
HonestConstant == budget.faults = 0 /\ chain = ConstantChain
\* The scenario of C14 scaled down: the stop height above the initial height
\* and a stop time before the time of every block.
HappyScenario ==
    /\ HonestConstant
    /\ ~FloorTaken
    /\ EvidenceStopHeight > state.InitialHeight
    /\ \A h \in Heights : BlockTime(CanonicalBlock(h)) > EvidenceStopTime
SavedHeights == [i \in 1..Len(savedHeaders) |-> savedHeaders[i].height]
Descending(hi, lo) == [i \in 1..(hi - lo + 1) |-> hi + 1 - i]
NoPeerError ==
    /\ chError["block"] = <<>>
    /\ bf.pc # "sendErr"
    /\ \A w \in Fetchers : workers[w].pc # "sendErr"

\* C14 as claimed: the completed back-fill of the scenario has saved the
\* headers of start down to stop + 1, start - stop of them, and made the one
\* call SaveValidatorSets(stop + 1, start, V); no PeerError.
HappyBackfillAboveStop ==
    /\ HappyScenario => NoPeerError
    /\ (HappyScenario /\ Completed) =>
          /\ SavedHeights = Descending(StartHeight, EvidenceStopHeight + 1)
          /\ Len(savedHeaders) = StartHeight - EvidenceStopHeight
          /\ savedVals = <<[lo |-> EvidenceStopHeight + 1, hi |-> StartHeight,
                            vals |-> chain[StartHeight], final |-> TRUE]>>

\* C14 amended: with honest peers and one validator set no PeerError is
\* emitted, and the completed back-fill has saved the headers of start down
\* to the terminal height (the initial height when the stop time is before
\* every block's time, else the first height at or below stop whose block is
\* not younger than the stop time) and made the one call
\* SaveValidatorSets(terminal height, start, V).
HappyBackfillToTerminal ==
    /\ HonestConstant => NoPeerError
    /\ (HonestConstant /\ Completed) =>
          /\ SavedHeights = Descending(StartHeight, TerminalHeight)
          /\ savedVals = <<[lo |-> TerminalHeight, hi |-> StartHeight,
                            vals |-> chain[StartHeight], final |-> TRUE]>>
          /\ HappyScenario => TerminalHeight = state.InitialHeight

\* C14 witness: the scenario's back-fill completed, with the header of the
\* initial height saved last.
HappyBackfillReachedInitial ==
    /\ HappyScenario
    /\ Completed
    /\ savedHeaders[Len(savedHeaders)].height = state.InitialHeight
    /\ Len(savedHeaders) > StartHeight - EvidenceStopHeight + 1

\* ------------------------------------------------- message handler claims
\* C15: a LightBlockRequest the handler has dealt with (short of a panic) is
\* being answered to its sender, and no PeerError for a failure of the store
\* names the requester.
LightBlockRequestAnswered ==
    /\ (loops["block"].msg = "Request" /\ loops["block"].err # "panic") =>
          /\ loops["block"].pc = "sendOut"
          /\ loops["block"].err = ""
    /\ \A i \in 1..Len(chError["block"]) : chError["block"][i].Err # "store error"

\* C16: handling a SnapshotsResponse or ChunkResponse (no panic) while no
\* sync is in progress changes nothing: no error, no PeerError, nothing
\* sent, nothing passed on; while a sync is in progress the loop likewise
\* stays at its receive, and AddSnapshot / AddChunk with the envelope's
\* sender is what the syncer is passed, nothing else changing.
ResponsePassedToActiveSyncer ==
    [][\A ch \in {"snapshot", "chunk"}, envelope \in Envelopes,
          w \in Worlds \ {"panic"} :
            (envelope.Message = "Response" /\ ChRecvEnvelope(ch, envelope, w)) =>
                /\ UNCHANGED <<reactorVars, syncVars, bfVars, chVars, budget,
                               dispVars, rotation>>
                /\ loops[ch] = IdleLoop
                /\ added' =
                      IF syncer = 0 THEN added
                      ELSE added \cup
                             {[call |-> IF ch = "snapshot" THEN "AddSnapshot"
                                        ELSE "AddChunk",
                               peer |-> envelope.From]}]_vars

\* C16 witness: with a sync in progress the syncer has been passed the
\* chunks of both peers, and the chunk loop is back at its receive with no
\* PeerError and nothing sent.
ChunksOfBothPeersAdded ==
    /\ syncer # 0
    /\ added = {[call |-> "AddChunk", peer |-> p] : p \in Peers}
    /\ loops["chunk"] = IdleLoop
    /\ chOut["chunk"] = <<>> /\ chError["chunk"] = <<>>

\* ------------------------------------------------ Backfill parameter claims
Max(a, b) == IF a >= b THEN a ELSE b

\* C17: the queue Backfill starts with runs from the last block height down
\* to stop height max(last block height - max age in blocks, initial
\* height), with stop time the last block time less the max age duration,
\* or the last block time itself when the stop height was floored; the
\* first trusted block id is the state's LastBlockID.  Stop height and stop
\* time of the queue stay as they were set.
BackfillStopsAsComputed ==
    [][/\ (bf.pc = "idle" /\ bf'.pc # "idle") =>
            /\ queue'.verifyHeight = state.LastBlockHeight
            /\ SetMax(queue'.pending) = state.LastBlockHeight
            /\ bf'.trustedBlockID = state.LastBlockID
            /\ queue'.initialHeight = state.InitialHeight
       /\ bf'.pc # "idle" =>
            /\ queue'.stopHeight =
                  Max(state.LastBlockHeight - state.MaxAgeNumBlocks,
                      state.InitialHeight)
            /\ queue'.stopTime =
                  IF state.LastBlockHeight - state.MaxAgeNumBlocks
                        < state.InitialHeight
                  THEN state.LastBlockTime
                  ELSE state.LastBlockTime - state.MaxAgeDuration]_vars

\* C17 witness: a back-fill under way whose stop height was floored to the
\* initial height, with a max age duration that would have put the stop
\* time elsewhere.
FlooredWithDuration ==
    /\ bf.pc = "select"
    /\ state.LastBlockHeight - state.MaxAgeNumBlocks < state.InitialHeight
    /\ state.MaxAgeDuration > 0
    /\ queue.stopHeight = state.InitialHeight
    /\ queue.stopTime = state.LastBlockTime
    /\ savedHeaders # <<>>

\* ------------------------------------------------------------ mutex claims
\* C18: once a Sync call has returned it does not hold the reactor's mutex.
MutexFreeAfterReturn ==
    \A c \in Callers : sync[c].pc = "returned" => mtx # c

\* C28 as claimed: the reactor's mutex is never held across a blocking
\* operation: a caller of Sync holds it only between Lock and Unlock, where
\* its one step is initStateProvider with the construction of the syncer;
\* it does not hold it while it waits for peers, for the mutex, in SyncAny,
\* in the store calls or in Backfill, nor once it has left Sync for whatever
\* it waits on next; and nobody else holds it from one step to the next.
LockNotHeldAcrossBlocking ==
    /\ \A c \in Callers : mtx = c => sync[c].pc = "init"
    /\ mtx \in Callers \cup {0}

\* ------------------------------------------------------ fetch worker claims
InList(p, list) == \E i \in 1..Len(list) : list[i] = p

\* C19: a worker whose fetch of height h fails with an error that is not a
\* cancellation (the dispatcher's error, or no connected peer) retries h,
\* which is then pending again unless its retries are exhausted (the queue
\* ignores the retry once it is done), and goes back to its select: it sends
\* no PeerError and does not go on to remove the peer, which is in the peer
\* list after the step, and the verifier (and so the result of backfill) is
\* untouched.
FetchErrorOnlyRetries ==
    [][\A w \in Fetchers, res \in FetchResults :
          (res.kind \in {"err", "nopeers"} /\ WorkerFetchResult(w, res)) =>
              LET h == workers[w].height IN
              /\ IF queue.done \/ h \notin Heights
                 THEN queue' = queue
                 ELSE /\ queue'.retries[h] = queue.retries[h] + 1
                      /\ \/ h \in queue'.pending /\ ~queue'.done
                         \/ /\ queue'.retries[h] > maxLightBlockRequestRetries
                            /\ queue'.done /\ queue'.err = "retries_exhausted"
              /\ workers'[w].pc = "select"
              /\ chError' = chError
              /\ InList(workers[w].peer, peers')
              /\ bf' = bf]_vars

\* C19 witness: a height has been retried after a failed fetch while both
\* peers are in the list, no PeerError has been sent, and the back-fill has
\* gone on to save the header of that height.
RetriedAfterErrorAndSaved ==
    \E h \in Heights :
        /\ queue.retries[h] > 0
        /\ handed[h] > 1
        /\ \A p \in Peers : InList(p, peers)
        /\ chError["block"] = <<>>
        /\ \A w \in Fetchers : workers[w].pc \notin {"sendErr", "remove"}
        /\ \E i \in 1..Len(savedHeaders) : savedHeaders[i].height = h

\* C20: when a worker has removed the peer that answered it with a nil light
\* block, the peer is not in the peer list and no worker holds it for a
\* request.
NilPeerRemoved ==
    [][\A w \in Fetchers :
          (workers[w].pc = "remove" /\ workers'[w].pc # "remove") =>
              /\ ~InList(workers[w].peer, peers')
              /\ \A v \in Fetchers :
                    ~(workers'[v].pc = "fetch" /\ workers'[v].peer = workers[w].peer)]_vars

\* C21: a worker that is answered with a light block adds it to the queue,
\* under the peer it asked, only if the block passes ValidateBasic and has
\* the height requested; otherwise it retries the height, adds nothing, and
\* goes on to send a PeerError that names the peer it asked.  So a block the
\* verifier can receive from the queue passes ValidateBasic and is filed
\* under its own height.
InvalidBlockNeverQueued ==
    /\ [](\A h \in Heights :
             queue.fetched[h] # NoResp =>
                 ValidateBasic(queue.fetched[h].block) /\ queue.fetched[h].block.height = h)
    /\ [][\A w \in Fetchers, res \in FetchResults :
            (res.kind = "block" /\ WorkerFetchResult(w, res)) =>
                LET h == workers[w].height
                    peer == workers[w].peer
                IN
                IF ValidateBasic(res.block) /\ res.block.height = h
                THEN /\ queue' = add(queue, [block |-> res.block, peer |-> peer])
                     /\ workers'[w].pc = "select"
                ELSE /\ queue'.fetched = queue.fetched
                     /\ queue.done \/ queue'.retries[h] = queue.retries[h] + 1
                     /\ workers'[w].pc = "sendErr"
                     /\ workers'[w].peer = peer]_vars
    /\ [][\A w \in Fetchers :
            (workers[w].pc = "sendErr" /\ workers'[w].pc # "sendErr") =>
                /\ chError'["block"] # <<>>
                /\ chError'["block"][Len(chError'["block"])].NodeID = workers[w].peer
                /\ Len(chError'["block"]) = Len(chError["block"]) + 1]_vars

\* C21 witness: a worker has reported a peer for an invalid light block (the
\* verifier has rejected nothing), the height was retried, and its header
\* has since been saved from a valid block.
InvalidBlockReportedThenSaved ==
    /\ chError["block"] # <<>>
    /\ delivered # <<>>
    /\ \A i \in 1..Len(delivered) : delivered[i].accepted
    /\ \E h \in Heights :
          /\ queue.retries[h] > 0
          /\ handed[h] > 1
          /\ \E i \in 1..Len(savedHeaders) : savedHeaders[i].height = h

\* ---------------------------------------------------------- verifier claims
\* The verifier's locals that carry over from one block to the next.
VerifierLocals == <<bf.trustedBlockID, bf.lastValidatorSet, bf.lastChangeHeight>>

\* C22: when the verifier receives a block whose hash is not the trusted
\* block id, it goes on to send a PeerError for the peer of that response and
\* then retries the block's height, which is the height it is verifying: that
\* height is pending again, unless the retry exhausted its retries or the
\* queue was done already.  In both steps no header and no validator set is
\* saved, and the trusted block id, the last validator set, the last change
\* height and the queue's verify height stay as they are.
MismatchOnlyReportsAndRetries ==
    /\ [][(/\ bf.pc = "select"
           /\ Len(delivered') = Len(delivered) + 1
           /\ Hash(queue.fetched[queue.verifyHeight].block) # bf.trustedBlockID) =>
              /\ bf'.pc = "sendErr"
              /\ bf'.resp = queue.fetched[queue.verifyHeight]
              /\ bf'.resp.block.height = queue.verifyHeight
              /\ VerifierLocals' = VerifierLocals
              /\ queue'.verifyHeight = queue.verifyHeight
              /\ savedHeaders' = savedHeaders
              /\ savedVals' = savedVals
              /\ chError' = chError]_vars
    /\ [][(bf.pc = "sendErr" /\ bf'.pc # "sendErr") =>
              LET h == bf.resp.block.height IN
              /\ bf'.pc = "select"
              /\ chError'["block"] =
                     Append(chError["block"], [NodeID |-> bf.resp.peer, Err |-> "invalid block"])
              /\ IF queue.done THEN queue' = queue
                 ELSE /\ queue'.retries[h] = queue.retries[h] + 1
                      /\ \/ h \in queue'.pending /\ ~queue'.done
                         \/ /\ queue'.retries[h] > maxLightBlockRequestRetries
                            /\ queue'.done /\ queue'.err = "retries_exhausted"
              /\ VerifierLocals' = VerifierLocals
              /\ queue'.verifyHeight = queue.verifyHeight
              /\ queue'.verifyHeight = h
              /\ savedHeaders' = savedHeaders
              /\ savedVals' = savedVals]_vars

\* C22 witness: the verifier rejected a block of a height, the peer was
\* reported, and the next block delivered, for the same height, was accepted
\* and saved against the trusted block id the rejected one had failed.
RejectedThenAcceptedSameHeight ==
    \E i \in 2..Len(delivered) :
        /\ ~delivered[i - 1].accepted
        /\ delivered[i].accepted
        /\ delivered[i].height = delivered[i - 1].height
        /\ \E k \in 1..Len(savedHeaders) :
              /\ savedHeaders[k].height = delivered[i].height
              /\ savedHeaders[k].trusted = savedHeaders[k].hash
        /\ \A k \in 1..Len(savedHeaders), l \in 1..Len(savedHeaders) :
              savedHeaders[k].height = savedHeaders[l].height => k = l

\* ------------------------------------------------- reported peer claims
\* C27 as claimed: the PeerError a fetch worker emits for the invalid block
\* its call returned names the peer whose LightBlockResponse carried that
\* block.
ReportedPeerSentTheBlock ==
    [][\A w \in Fetchers :
          (workers[w].pc = "sendErr" /\ workers'[w].pc # "sendErr") =>
              /\ chError'["block"] # <<>>
              /\ chError'["block"][Len(chError'["block"])].NodeID
                     = lbCalls[w].result.from]_vars

\* ------------------------------------------------------- PeerError claims
\* C23 as claimed: a fetch worker or the verifier that has a PeerError to
\* send on r.blockCh.Error gets past the send, whether or not anybody
\* receives from the error side.
PeerErrorSendNeverBlocks ==
    /\ \A w \in Fetchers : (workers[w].pc = "sendErr") ~> (workers[w].pc # "sendErr")
    /\ (bf.pc = "sendErr") ~> (bf.pc # "sendErr")

\* ------------------------------------------------------------ OnStop claims
\* C24 as claimed: once the close channel is signalled (the dispatcher is
\* closed by then), the four channel loops and the peer-update loop each exit
\* and close their channel, so that OnStop returns.
StopClosesEveryLoop ==
    /\ [](closeCh => dispatcher.done)
    /\ closeCh ~> (pu.pc = "closed" /\ \A ch \in Channels : loops[ch].pc = "closed")

\* ---------------------------------------------------- connected peer claims
\* C25 as claimed: every id in the peer list is that of a peer the router has
\* reported up and not down since, and none is the "no peer" sentinel.
PeerListOnlyConnected ==
    \A i \in 1..Len(peers) : peers[i] # NoPeer /\ peers[i] \in connected

\* ------------------------------------------------------ worker exit claims
\* C26 as claimed: once backfill has returned, whatever it returned, every
\* fetch worker it spawned exits.
WorkersExitAfterReturn ==
    (bf.pc = "returned") ~> (\A w \in Fetchers : workers[w].pc = "exit")
====
